---- MODULE Spec2Model ----
(***************************************************************************)
(* Model of TELF's RESCALk orchestrator (factorization/RESCALk.py):        *)
(* the constructor's resource resolution, RESCALk.fit as one process per   *)
(* MPI node (rank loop, trial dispatch, consensus, barrier, gather, merge) *)
(* and the helper RESCALk._chunk_Ks.                                       *)
(***************************************************************************)
EXTENDS Integers, Sequences, FiniteSets, TLC

(***************************************************************************)
(* Bounds of the model.                                                    *)
(***************************************************************************)
MaxNodes == 2
MaxPerturbs == 3
MaxCPUs == 2
MaxGPUs == 2
MaxRank == 3
MaxLen == 3
MaxWork == 6
MaxChunks == 3
MaxChunkLen == 4
MaxDocs == 4
MaxJobs == 3
MaxSteps == 2

VARIABLES
    n_nodes,          \* self.n_nodes
    n_jobs,           \* self.n_jobs after __init__
    n_perturbs,       \* self.n_perturbs
    use_gpu,          \* self.use_gpu after __init__
    save_output,      \* self.save_output
    collect_output,   \* self.collect_output
    Ks_arg,           \* the Ks argument of fit
    pc,               \* per node: position in fit
    Ks,               \* per node: the local Ks (the node's chunk when n_nodes > 1)
    i,                \* per node: index of the rank loop (0-based)
    p,                \* per node: next perturbation to launch
    running,          \* per node: the trials in flight
    current_pert_results, \* per node: results of Parallel, by task index
    completion,       \* per node: seeds of the current rank in completion order
    A_all, R_all, errors, \* per node: stacked trial outputs of the current rank
    series,           \* per node: sils_min, sils_mean, sils_std, err_reg, err_mean, err_std
    decomp_data,      \* per node: collected factors
    npz,              \* per node: ranks whose AR_k=<k>.npz was written
    all_share_data,   \* what comm.gather has collected, by MPI rank
    results,          \* per node: what fit returned
    plot_final,       \* nodes that wrote the final summary and plot
    ck,               \* a call of _chunk_Ks: arguments and return value
    n_gpus,           \* len(GPUtil.getGPUs())
    failed,           \* per node: the trial whose exception ended fit
    tr,               \* repeated calls of _rescal_wrapper and the random sources
    ct,               \* a call of RESCALk.__init__: arguments, environment, outcome
    X,                \* the input dataset passed to fit
    experiment_dir,   \* whether save_path/experiment_name exists
    vu,               \* a call of Vulture._clean_helper: documents, workers, result
    vo                \* a Vulture object: validated attributes, a call of clean per node, files

vars == <<n_nodes, n_jobs, n_perturbs, use_gpu, save_output, collect_output, Ks_arg,
          pc, Ks, i, p, running, current_pert_results, completion,
          A_all, R_all, errors, series, decomp_data, npz,
          all_share_data, results, plot_final, ck, n_gpus, failed, tr, ct,
          X, experiment_dir, vu, vo>>

cfgVars == <<n_nodes, n_jobs, n_perturbs, use_gpu, save_output, collect_output, Ks_arg,
             n_gpus>>

fitVars == <<pc, Ks, i, p, running, current_pert_results, completion,
             A_all, R_all, errors, series, decomp_data, npz,
             all_share_data, results, plot_final, failed, X, experiment_dir>>

Nodes == 0 .. (n_nodes - 1)

Min(a, b) == IF a < b THEN a ELSE b

StatNames == {"sils_min", "sils_mean", "sils_std", "err_reg", "err_mean", "err_std"}

(***************************************************************************)
(* Rank lists: non-empty lists of distinct ranks in any order (the ranks   *)
(* 1..l in every arrangement, for every length l up to maxLen).            *)
(***************************************************************************)
RankLists(maxLen) ==
    { s \in UNION { [1..l -> 1..l] : l \in 1..maxLen } :
        \A a, b \in DOMAIN s : a # b => s[a] # s[b] }

(***************************************************************************)
(* RESCALk._chunk_Ks                                                       *)
(***************************************************************************)
chunk_idx_shifted(idx, n_chunks) == (idx + 1) % n_chunks

chunk_idx_div(idx, n_chunks) == idx \div n_chunks

chunk_idx(idx, n_chunks) == idx % n_chunks

correct_n_chunks(len, n_chunks) == IF len < n_chunks THEN len ELSE n_chunks

RECURSIVE chunk_loop(_, _, _, _)
chunk_loop(list, idx, n, chunks) ==
    IF idx >= Len(list) THEN chunks
    ELSE LET c == chunk_idx(idx, n) + 1
         IN  chunk_loop(list, idx + 1, n,
                        [chunks EXCEPT ![c] = Append(@, list[idx + 1])])

chunk_Ks(list, n_chunks) ==
    LET n == correct_n_chunks(Len(list), n_chunks)
    IN  chunk_loop(list, 0, n, [c \in 1..n |-> <<>>])

(***************************************************************************)
(* RESCALk.__init__: device check and resolution of n_jobs.  The result is *)
(* [ok, use_gpu, n_jobs]; ok = FALSE stands for the raised exception.      *)
(***************************************************************************)
\* a device check that takes the request at its word
device_check_trusting(req_gpu, gpus) == req_gpu

\* lines 294-298: use_gpu stays True only when a device is found
device_check(req_gpu, gpus) == req_gpu /\ gpus > 0

\* lines 304-312 with the + 1 left out
resolve_n_jobs_no_plus_one(req_jobs, resources) ==
    IF req_jobs < 0 THEN resources + req_jobs ELSE req_jobs

\* lines 304-312: a negative request counts back from the available resources
resolve_n_jobs(req_jobs, resources) ==
    IF req_jobs < 0 THEN resources + (req_jobs + 1) ELSE req_jobs

\* lines 319-334 without the device branch
clamp_n_jobs_cpu_only(n1, gpu, gpus, cpus, perturbs) ==
    IF gpu THEN n1 ELSE Min(Min(n1, cpus), perturbs)

\* lines 319-334: the device count when accelerated; else the CPU count, then n_perturbs
clamp_n_jobs(n1, gpu, gpus, cpus, perturbs) ==
    IF gpu THEN Min(n1, gpus) ELSE Min(Min(n1, cpus), perturbs)

\* a constructor that warns of nothing
init_warnings_quiet(req_jobs, req_gpu, gpus, cpus) == {}

\* lines 296, 321-323, 329-331: the warnings issued by the time __init__ ends or raises
init_warnings(req_jobs, req_gpu, gpus, cpus) ==
    LET gpu == device_check(req_gpu, gpus)
        n1 == resolve_n_jobs(req_jobs, IF gpu THEN gpus ELSE cpus)
    IN  (IF req_gpu /\ gpus <= 0 THEN {"No GPU found"} ELSE {})
        \cup (IF n1 > 0 /\ gpu /\ n1 > gpus THEN {"Too many GPUs"} ELSE {})
        \cup (IF n1 > 0 /\ ~gpu /\ n1 > cpus THEN {"Too many CPUs"} ELSE {})

init_resources(req_jobs, req_gpu, gpus, cpus, perturbs) ==
    LET gpu == device_check(req_gpu, gpus)
        resources == IF gpu THEN gpus ELSE cpus
        n1 == resolve_n_jobs(req_jobs, resources)
        n2 == clamp_n_jobs(n1, gpu, gpus, cpus, perturbs)
    IN  [ok |-> n1 > 0, use_gpu |-> gpu, n_jobs |-> n2]

(***************************************************************************)
(* RESCALk.__init__: validation of init and n_nodes, selection of the      *)
(* kernel.  "None" is Python's None.                                       *)
(***************************************************************************)
init_options == {"nnsvd", "random"}

avail_rescal_methods == {"rescal_fro_mu", "func"}

NoParams == [unset |-> TRUE]

\* a selection that prefers the caller's function whenever one is passed
select_kernel_func_first(method, func, gpu) ==
    IF func # "None"
    THEN [rescal |-> func, rescal_params |-> [obj |-> "rescal_obj_params"]]
    ELSE [rescal |-> "rescal",
          rescal_params |-> [niter |-> "n_iters", use_gpu |-> gpu,
                             rescal_verbose |-> "rescal_verbose"]]

\* lines 351-362 (the final else, line 364, is not reachable past line 346)
select_kernel(method, func, gpu) ==
    IF method = "rescal_fro_mu"
    THEN [rescal |-> "rescal",
          rescal_params |-> [niter |-> "n_iters", use_gpu |-> gpu,
                             rescal_verbose |-> "rescal_verbose"]]
    ELSE [rescal |-> func, rescal_params |-> [obj |-> "rescal_obj_params"]]

(***************************************************************************)
(* _rescal_wrapper: the output (A, R, error) of the trial with seed        *)
(* perturbation at rank k, as symbolic values.                             *)
(***************************************************************************)
rescal_wrapper(perturbation, k) ==
    [w |-> [seed |-> perturbation, k |-> k],
     h |-> [seed |-> perturbation, k |-> k],
     e |-> [seed |-> perturbation, k |-> k]]

(***************************************************************************)
(* numpy helpers of the merge: np.argsort and indexing by an index array.  *)
(***************************************************************************)
RECURSIVE argsort_from(_, _)
argsort_from(s, remaining) ==
    IF remaining = {} THEN <<>>
    ELSE LET m == CHOOSE a \in remaining :
                     \A b \in remaining : s[a] < s[b] \/ (s[a] = s[b] /\ a <= b)
         IN  <<m>> \o argsort_from(s, remaining \ {m})

argsort(s) == argsort_from(s, DOMAIN s)

take_unsorted(s, idx) == s

take(s, idx) == [j \in 1..Len(idx) |-> s[idx[j]]]

(***************************************************************************)
(* The calls of _rescal_wrapper.  wrapper_params is its signature; the     *)
(* sequential loop passes keywords (gpuid keeps its default 0), the        *)
(* parallel dispatch passes positional arguments.  The objects passed      *)
(* through unchanged are named by the expression that yields them.         *)
(***************************************************************************)
device_index_raw(pert) == pert

device_index(pert) == pert % n_jobs

wrapper_params ==
    <<"perturbation", "rescal", "rescal_params", "init", "X", "k", "epsilon",
      "gpuid", "use_gpu", "calculate_error">>

bind_positional(values) ==
    [name \in {wrapper_params[j] : j \in DOMAIN values} |->
        values[CHOOSE j \in DOMAIN values : wrapper_params[j] = name]]

seq_call_args(pert, k) ==
    [perturbation |-> pert, rescal |-> "self.rescal",
     rescal_params |-> "self.rescal_params",
     calculate_error |-> "self.calculate_error", init |-> "self.init",
     X |-> "X", k |-> k, epsilon |-> "self.epsilon", use_gpu |-> use_gpu,
     gpuid |-> 0]

par_call_args_swapped(pert, k) ==
    bind_positional(<<k, "self.rescal", "self.rescal_params", "self.init", "X",
                      pert, "self.epsilon", device_index(pert), use_gpu,
                      "self.calculate_error">>)

par_call_args(pert, k) ==
    bind_positional(<<pert, "self.rescal", "self.rescal_params", "self.init", "X",
                      k, "self.epsilon", device_index(pert), use_gpu,
                      "self.calculate_error">>)

\* range(self.n_perturbs): the seed of the trial launched after `launched` others
next_seed_from_one(launched) == launched + 1

next_seed(launched) == launched

\* an exception of a trial propagates out of fit
after_trial_error_retry == "trials"

after_trial_error == "raised"

(***************************************************************************)
(* joblib.Parallel: the returned list is indexed by task, and the call     *)
(* returns when every task was launched and none is in flight.             *)
(***************************************************************************)
Parallel_collect_completion(res, task, out) == res @@ (Cardinality(DOMAIN res) :> out)

Parallel_collect(res, task, out) == res @@ (task :> out)

Parallel_joined_launched(launched, inflight) == launched = n_perturbs

Parallel_joined(launched, inflight) == launched = n_perturbs /\ inflight = {}

(***************************************************************************)
(* comm.Barrier: nobody leaves before every node has arrived.              *)
(***************************************************************************)
PastLoop == {"barrier", "gather", "merge", "exit", "exited", "final", "returned"}

Barrier_released_first(arrived) == arrived # {}

Barrier_released(arrived) == arrived = Nodes

(***************************************************************************)
(* Values of the per-rank statistics, as symbolic values: statistic name,  *)
(* the rank of the trial set it was computed from, the computing node.     *)
(***************************************************************************)
stat_value(name, stacked, n) == [stat |-> name, k |-> stacked[1].k, node |-> n]

share_data(n) == [Ks |-> Ks[n], decomp_data |-> decomp_data[n], series |-> series[n]]

RECURSIVE gathered_concat(_, _)
gathered_concat(lists, upto) ==
    IF upto = 0 THEN <<>>
    ELSE gathered_concat(lists, upto - 1) \o lists[upto - 1]

after_rank_short(idx, localKs) ==
    IF idx + 1 < Len(localKs) THEN "trials"
    ELSE IF n_nodes > 1 THEN "barrier" ELSE "final"

after_rank(idx, localKs) ==
    IF idx < Len(localKs) THEN "trials"
    ELSE IF n_nodes > 1 THEN "barrier" ELSE "final"

get_plot_data == TRUE

(***************************************************************************)
(* The input dataset and the helpers that are handed it.  A helper is      *)
(* modelled by its result and by the dataset it leaves behind.             *)
(***************************************************************************)
Dataset == [data |-> "X", noise |-> {}]

\* a sampler that multiplies the noise into its argument
uniform_product_inplace(x, seed) ==
    [Y |-> [x EXCEPT !.noise = @ \cup {seed}],
     X |-> [x EXCEPT !.noise = @ \cup {seed}]]

\* uniform_product(X_, epsilon): a resampled copy; no effect but on the random state
uniform_product(x, seed) ==
    [Y |-> [x EXCEPT !.noise = @ \cup {seed}], X |-> x]

\* R_update(X, A, R0) and relative_error_rescal(X, A, R): X is read-only
R_update(x, k) == [R |-> [k |-> k], X |-> x]

(***************************************************************************)
(* Construction and the call of fit on every node.                         *)
(***************************************************************************)
NoCall == [Ks |-> <<>>, n_chunks |-> 0, done |-> FALSE, chunks |-> <<>>]

NoTrial == [calls |-> 0]

NoInit == [state |-> "none"]

NoClean == [state |-> "none"]

\* no Vulture object is under study
NoObject == [state |-> "none"]

Init ==
    /\ n_nodes \in 1..MaxNodes
    /\ n_perturbs \in 1..MaxPerturbs
    /\ \E req_jobs \in ((0 - MaxCPUs) .. (MaxCPUs + 1)), req_gpu \in BOOLEAN,
          gpus \in 0..MaxGPUs, cpus \in 1..MaxCPUs :
          LET r == init_resources(req_jobs, req_gpu, gpus, cpus, n_perturbs)
          IN  /\ r.ok
              /\ use_gpu = r.use_gpu
              /\ n_jobs = r.n_jobs
              /\ n_gpus = gpus
    /\ save_output \in BOOLEAN
    /\ collect_output \in BOOLEAN
    /\ Ks_arg \in RankLists(MaxLen) \cup {<<>>}
    /\ n_nodes * Len(Ks_arg) * n_perturbs <= MaxWork
    /\ pc = [n \in Nodes |-> "fit"]
    /\ Ks = [n \in Nodes |-> <<>>]
    /\ i = [n \in Nodes |-> 0]
    /\ p = [n \in Nodes |-> 0]
    /\ running = [n \in Nodes |-> {}]
    /\ current_pert_results = [n \in Nodes |-> <<>>]
    /\ completion = [n \in Nodes |-> <<>>]
    /\ A_all = [n \in Nodes |-> <<>>]
    /\ R_all = [n \in Nodes |-> <<>>]
    /\ errors = [n \in Nodes |-> <<>>]
    /\ series = [n \in Nodes |-> [s \in StatNames |-> <<>>]]
    /\ decomp_data = [n \in Nodes |-> <<>>]
    /\ npz = [n \in Nodes |-> {}]
    /\ all_share_data = <<>>
    /\ results = <<>>
    /\ plot_final = {}
    /\ ck = NoCall
    /\ failed = [n \in Nodes |-> {}]
    /\ tr = NoTrial
    /\ ct = NoInit
    /\ X = [n \in Nodes |-> Dataset]
    /\ experiment_dir \in (IF save_output THEN BOOLEAN ELSE {FALSE})
    /\ vu = NoClean
    /\ vo = NoObject

\* a fit that accepts an empty rank list
empty_Ks_ignored(list) == FALSE

\* lines 396-397: if len(Ks) == 0: raise
empty_Ks(list) == Len(list) = 0

\* lines 432-436: os.mkdir(save_path) on a single node or on MPI rank 0
makes_dir(n) == save_output /\ (n_nodes = 1 \/ (n_nodes > 1 /\ n = 0))

\* fit, lines 393-473: error check, selection of the node's chunk, empty series
FitBegin(n) ==
    /\ pc[n] = "fit"
    /\ IF empty_Ks(Ks_arg)
       THEN /\ pc' = [pc EXCEPT ![n] = "raised"]
            /\ UNCHANGED <<Ks, experiment_dir>>
       ELSE IF n_nodes > 1
       THEN LET chunks == chunk_Ks(Ks_arg, n_nodes)
            IN  IF n + 1 > Len(chunks)
                THEN /\ pc' = [pc EXCEPT ![n] = "IndexError"]
                     /\ UNCHANGED <<Ks, experiment_dir>>
                ELSE /\ Ks' = [Ks EXCEPT ![n] = chunks[n + 1]]
                     /\ pc' = [pc EXCEPT ![n] = after_rank(0, chunks[n + 1])]
                     /\ experiment_dir' = (experiment_dir \/ makes_dir(n))
       ELSE /\ Ks' = [Ks EXCEPT ![n] = Ks_arg]
            /\ pc' = [pc EXCEPT ![n] = after_rank(0, Ks_arg)]
            /\ experiment_dir' = (experiment_dir \/ makes_dir(n))
    /\ UNCHANGED <<cfgVars, i, p, running, current_pert_results, completion,
                   A_all, R_all, errors, series, decomp_data, npz,
                   all_share_data, results, plot_final, ck,
                   failed, tr, ct, X, vu, vo>>

\* lines 481-494: the sequential loop calls the trial runner (gpuid defaults to 0)
SeqTrialStart(n) ==
    /\ pc[n] = "trials"
    /\ n_jobs = 1
    /\ running[n] = {}
    /\ p[n] < n_perturbs
    /\ running' = [running EXCEPT ![n] =
                      {[pert |-> next_seed(p[n]), k |-> Ks[n][i[n] + 1], gpuid |-> 0,
                        args |-> seq_call_args(next_seed(p[n]), Ks[n][i[n] + 1])]}]
    /\ p' = [p EXCEPT ![n] = @ + 1]
    /\ X' = [X EXCEPT ![n] = uniform_product(@, next_seed(p[n])).X]
    /\ UNCHANGED <<cfgVars, pc, Ks, i, current_pert_results, completion,
                   A_all, R_all, errors, series, decomp_data, npz,
                   all_share_data, results, plot_final, ck,
                   failed, tr, ct, experiment_dir, vu, vo>>

\* lines 495-501: the trial returns, its output is appended; after the last one
\* the lists are converted to arrays
SeqTrialFinish(n) ==
    /\ pc[n] = "trials"
    /\ n_jobs = 1
    /\ \E t \in running[n] :
          LET out == rescal_wrapper(t.args.perturbation, t.args.k)
          IN  /\ A_all' = [A_all EXCEPT ![n] = Append(@, out.w)]
              /\ R_all' = [R_all EXCEPT ![n] = Append(@, out.h)]
              /\ errors' = [errors EXCEPT ![n] = Append(@, out.e)]
              /\ completion' = [completion EXCEPT ![n] = Append(@, t.pert)]
              /\ running' = [running EXCEPT ![n] = {}]
    /\ pc' = [pc EXCEPT ![n] = IF p[n] = n_perturbs THEN "cluster" ELSE "trials"]
    /\ UNCHANGED <<cfgVars, Ks, i, p, current_pert_results, series, decomp_data,
                   npz, all_share_data, results, plot_final, ck,
                   failed, tr, ct, X, experiment_dir, vu, vo>>

\* lines 503-517: a free worker of the pool takes the next pending trial
ParStart(n) ==
    /\ pc[n] = "trials"
    /\ n_jobs > 1
    /\ p[n] < n_perturbs
    /\ Cardinality(running[n]) < n_jobs
    /\ running' = [running EXCEPT ![n] = @ \cup
                      {[pert |-> next_seed(p[n]), k |-> Ks[n][i[n] + 1],
                        gpuid |-> device_index(next_seed(p[n])),
                        args |-> par_call_args(next_seed(p[n]), Ks[n][i[n] + 1])]}]
    /\ p' = [p EXCEPT ![n] = @ + 1]
    /\ X' = [X EXCEPT ![n] = uniform_product(@, next_seed(p[n])).X]
    /\ UNCHANGED <<cfgVars, pc, Ks, i, current_pert_results, completion,
                   A_all, R_all, errors, series, decomp_data, npz,
                   all_share_data, results, plot_final, ck,
                   failed, tr, ct, experiment_dir, vu, vo>>

\* lines 503-517: a running trial returns to the pool
ParFinish(n) ==
    /\ pc[n] = "trials"
    /\ n_jobs > 1
    /\ \E t \in running[n] :
          /\ current_pert_results' = [current_pert_results EXCEPT ![n] =
                 Parallel_collect(@, t.pert,
                                  rescal_wrapper(t.args.perturbation, t.args.k))]
          /\ completion' = [completion EXCEPT ![n] = Append(@, t.pert)]
          /\ running' = [running EXCEPT ![n] = @ \ {t}]
    /\ UNCHANGED <<cfgVars, pc, Ks, i, p, A_all, R_all, errors, series,
                   decomp_data, npz, all_share_data, results, plot_final, ck,
                   failed, tr, ct, X, experiment_dir, vu, vo>>

\* lines 484-494 and 503-517: a running trial raises; nothing in fit catches
\* the exception, and the worker pool is torn down
TrialRaise(n) ==
    /\ pc[n] = "trials"
    /\ \E t \in running[n] : failed' = [failed EXCEPT ![n] = {t}]
    /\ running' = [running EXCEPT ![n] = {}]
    /\ pc' = [pc EXCEPT ![n] = after_trial_error]
    /\ UNCHANGED <<cfgVars, Ks, i, p, current_pert_results, completion,
                   A_all, R_all, errors, series, decomp_data, npz,
                   all_share_data, results, plot_final, ck, tr, ct, X, experiment_dir, vu, vo>>

\* line 503: Parallel(...)(...) returns
ParJoin(n) ==
    /\ pc[n] = "trials"
    /\ n_jobs > 1
    /\ Parallel_joined(p[n], running[n])
    /\ pc' = [pc EXCEPT ![n] = "stack"]
    /\ UNCHANGED <<cfgVars, Ks, i, p, running, current_pert_results, completion,
                   A_all, R_all, errors, series, decomp_data, npz,
                   all_share_data, results, plot_final, ck,
                   failed, tr, ct, X, experiment_dir, vu, vo>>

\* lines 519-527: the results are unpacked in list order and stacked
ParStack(n) ==
    /\ pc[n] = "stack"
    /\ LET res == current_pert_results[n]
           cnt == Cardinality(DOMAIN res)
       IN  /\ A_all' = [A_all EXCEPT ![n] = [j \in 1..cnt |-> res[j - 1].w]]
           /\ R_all' = [R_all EXCEPT ![n] = [j \in 1..cnt |-> res[j - 1].h]]
           /\ errors' = [errors EXCEPT ![n] = [j \in 1..cnt |-> res[j - 1].e]]
    /\ pc' = [pc EXCEPT ![n] = "cluster"]
    /\ UNCHANGED <<cfgVars, Ks, i, p, running, current_pert_results, completion,
                   series, decomp_data, npz, all_share_data, results, plot_final, ck,
                   failed, tr, ct, X, experiment_dir, vu, vo>>

\* lines 529-537: error statistics, clustering, silhouettes
Cluster(n) ==
    /\ pc[n] = "cluster"
    /\ series' = [series EXCEPT ![n] =
          [s \in StatNames |->
              IF s \in {"err_mean", "err_std"}
              THEN Append(series[n][s], stat_value(s, errors[n], n))
              ELSE IF s \in {"sils_min", "sils_mean", "sils_std"}
              THEN Append(series[n][s], stat_value(s, A_all[n], n))
              ELSE series[n][s]]]
    /\ pc' = [pc EXCEPT ![n] = "regress"]
    /\ UNCHANGED <<cfgVars, Ks, i, p, running, current_pert_results, completion,
                   A_all, R_all, errors, decomp_data, npz,
                   all_share_data, results, plot_final, ck,
                   failed, tr, ct, X, experiment_dir, vu, vo>>

\* lines 539-565: regression of the consensus cores, reconstruction error
Regress(n) ==
    /\ pc[n] = "regress"
    /\ series' = [series EXCEPT ![n]["err_reg"] =
                     Append(@, stat_value("err_reg", A_all[n], n))]
    /\ X' = [X EXCEPT ![n] = R_update(@, Ks[n][i[n] + 1]).X]
    /\ pc' = [pc EXCEPT ![n] = "save"]
    /\ UNCHANGED <<cfgVars, Ks, i, p, running, current_pert_results, completion,
                   A_all, R_all, errors, decomp_data, npz,
                   all_share_data, results, plot_final, ck,
                   failed, tr, ct, experiment_dir, vu, vo>>

\* lines 575-607: per-rank artifact and log row (np.savez_compressed raises when
\* the directory is missing), collected output; then the loop moves to the next
\* rank (or leaves, lines 609-625)
Save(n) ==
    /\ pc[n] = "save"
    /\ IF save_output /\ ~experiment_dir
       THEN /\ pc' = [pc EXCEPT ![n] = "FileNotFoundError"]
            /\ UNCHANGED <<npz, decomp_data, i, p, current_pert_results, completion,
                           A_all, R_all, errors>>
       ELSE /\ LET k == Ks[n][i[n] + 1]
               IN  /\ npz' = [npz EXCEPT ![n] = IF save_output THEN @ \cup {k} ELSE @]
                   /\ decomp_data' = [decomp_data EXCEPT ![n] =
                         IF collect_output
                         THEN Append(@, [A |-> A_all[n][1].k, R |-> A_all[n][1].k,
                                         k |-> k, node |-> n])
                         ELSE @]
            /\ i' = [i EXCEPT ![n] = @ + 1]
            /\ pc' = [pc EXCEPT ![n] = after_rank(i[n] + 1, Ks[n])]
            /\ p' = [p EXCEPT ![n] = 0]
            /\ current_pert_results' = [current_pert_results EXCEPT ![n] = <<>>]
            /\ completion' = [completion EXCEPT ![n] = <<>>]
            /\ A_all' = [A_all EXCEPT ![n] = <<>>]
            /\ R_all' = [R_all EXCEPT ![n] = <<>>]
            /\ errors' = [errors EXCEPT ![n] = <<>>]
    /\ UNCHANGED <<cfgVars, Ks, running, series, all_share_data, results,
                   plot_final, ck,
                   failed, tr, ct, X, experiment_dir, vu, vo>>

\* line 625: comm.Barrier() returns
BarrierLeave(n) ==
    /\ pc[n] = "barrier"
    /\ Barrier_released({m \in Nodes : pc[m] \in PastLoop})
    /\ pc' = [pc EXCEPT ![n] = "gather"]
    /\ UNCHANGED <<cfgVars, Ks, i, p, running, current_pert_results, completion,
                   A_all, R_all, errors, series, decomp_data, npz,
                   all_share_data, results, plot_final, ck,
                   failed, tr, ct, X, experiment_dir, vu, vo>>

\* line 628: comm.gather: the node hands its rows to the root
Gather(n) ==
    /\ pc[n] = "gather"
    /\ all_share_data' = all_share_data @@ (n :> share_data(n))
    /\ pc' = [pc EXCEPT ![n] = IF n = 0 THEN "merge" ELSE "exit"]
    /\ UNCHANGED <<cfgVars, Ks, i, p, running, current_pert_results, completion,
                   A_all, R_all, errors, series, decomp_data, npz,
                   results, plot_final, ck,
                   failed, tr, ct, X, experiment_dir, vu, vo>>

\* lines 664-665: sys.exit(0) on the other nodes
SysExit(n) ==
    /\ pc[n] = "exit"
    /\ pc' = [pc EXCEPT ![n] = "exited"]
    /\ UNCHANGED <<cfgVars, Ks, i, p, running, current_pert_results, completion,
                   A_all, R_all, errors, series, decomp_data, npz,
                   all_share_data, results, plot_final, ck,
                   failed, tr, ct, X, experiment_dir, vu, vo>>

\* lines 628-662: the gather completes on the root, which concatenates the
\* rows in MPI rank order and sorts them by rank
Merge(n) ==
    /\ pc[n] = "merge"
    /\ DOMAIN all_share_data = Nodes
    /\ LET all_Ks == gathered_concat(
                         [m \in Nodes |-> all_share_data[m].Ks], n_nodes)
           all_decomp_data == gathered_concat(
                         [m \in Nodes |-> all_share_data[m].decomp_data], n_nodes)
           Ks_sort_indices == argsort(all_Ks)
       IN  /\ Ks' = [Ks EXCEPT ![n] = take(all_Ks, Ks_sort_indices)]
           /\ series' = [series EXCEPT ![n] =
                 [s \in StatNames |->
                     take(gathered_concat(
                              [m \in Nodes |-> all_share_data[m].series[s]], n_nodes),
                          Ks_sort_indices)]]
           /\ decomp_data' = [decomp_data EXCEPT ![n] =
                 IF collect_output THEN take(all_decomp_data, Ks_sort_indices) ELSE @]
    /\ pc' = [pc EXCEPT ![n] = "final"]
    /\ UNCHANGED <<cfgVars, i, p, running, current_pert_results, completion,
                   A_all, R_all, errors, npz, all_share_data, results, plot_final, ck,
                   failed, tr, ct, X, experiment_dir, vu, vo>>

\* lines 667-721: final summary, plot and the returned bundle
Final(n) ==
    /\ pc[n] = "final"
    /\ plot_final' = IF save_output THEN plot_final \cup {n} ELSE plot_final
    /\ results' = results @@ (n :>
          [all_factors |-> IF collect_output THEN decomp_data[n] ELSE <<>>,
           plot_data |-> IF get_plot_data
                         THEN [Ks |-> Ks[n], series |-> series[n]]
                         ELSE [Ks |-> <<>>, series |-> [s \in StatNames |-> <<>>]]])
    /\ pc' = [pc EXCEPT ![n] = "returned"]
    /\ UNCHANGED <<cfgVars, Ks, i, p, running, current_pert_results, completion,
                   A_all, R_all, errors, series, decomp_data, npz,
                   all_share_data, ck,
                   failed, tr, ct, X, experiment_dir, vu, vo>>

Next ==
    \/ \E n \in Nodes : FitBegin(n)
    \/ \E n \in Nodes : SeqTrialStart(n)
    \/ \E n \in Nodes : SeqTrialFinish(n)
    \/ \E n \in Nodes : ParStart(n)
    \/ \E n \in Nodes : ParFinish(n)
    \/ \E n \in Nodes : TrialRaise(n)
    \/ \E n \in Nodes : ParJoin(n)
    \/ \E n \in Nodes : ParStack(n)
    \/ \E n \in Nodes : Cluster(n)
    \/ \E n \in Nodes : Regress(n)
    \/ \E n \in Nodes : Save(n)
    \/ \E n \in Nodes : BarrierLeave(n)
    \/ \E n \in Nodes : Gather(n)
    \/ \E n \in Nodes : SysExit(n)
    \/ \E n \in Nodes : Merge(n)
    \/ \E n \in Nodes : Final(n)

Spec == Init /\ [][Next]_vars

TypeOK ==
    /\ n_nodes \in 1..MaxNodes
    /\ n_jobs >= 1
    /\ \A n \in Nodes : i[n] \in 0..Len(Ks[n])

(***************************************************************************)
(* A call of _chunk_Ks on its own: any rank list, any chunk count.         *)
(***************************************************************************)
AnyLists(maxLen) == UNION { [1..l -> 1..MaxRank] : l \in 1..maxLen }

InitChunk ==
    /\ n_nodes = 1
    /\ n_perturbs = 1
    /\ n_jobs = 1
    /\ use_gpu = FALSE
    /\ save_output = FALSE
    /\ collect_output = FALSE
    /\ Ks_arg = <<>>
    /\ pc = [n \in Nodes |-> "fit"]
    /\ Ks = [n \in Nodes |-> <<>>]
    /\ i = [n \in Nodes |-> 0]
    /\ p = [n \in Nodes |-> 0]
    /\ running = [n \in Nodes |-> {}]
    /\ current_pert_results = [n \in Nodes |-> <<>>]
    /\ completion = [n \in Nodes |-> <<>>]
    /\ A_all = [n \in Nodes |-> <<>>]
    /\ R_all = [n \in Nodes |-> <<>>]
    /\ errors = [n \in Nodes |-> <<>>]
    /\ series = [n \in Nodes |-> [s \in StatNames |-> <<>>]]
    /\ decomp_data = [n \in Nodes |-> <<>>]
    /\ npz = [n \in Nodes |-> {}]
    /\ all_share_data = <<>>
    /\ results = <<>>
    /\ plot_final = {}
    /\ \E l \in AnyLists(MaxChunkLen), c \in 1..MaxChunks :
          ck = [Ks |-> l, n_chunks |-> c, done |-> FALSE, chunks |-> <<>>]
    /\ n_gpus = 0
    /\ failed = [n \in Nodes |-> {}]
    /\ tr = NoTrial
    /\ ct = NoInit
    /\ X = [n \in Nodes |-> Dataset]
    /\ experiment_dir = FALSE
    /\ vu = NoClean
    /\ vo = NoObject

\* lines 723-736
ChunkCall ==
    /\ ~ck.done
    /\ ck' = [ck EXCEPT !.done = TRUE, !.chunks = chunk_Ks(ck.Ks, ck.n_chunks)]
    /\ UNCHANGED <<cfgVars, fitVars, tr, ct, vu, vo>>

NextChunk == ChunkCall

SpecChunk == InitChunk /\ [][NextChunk]_vars

(***************************************************************************)
(* _rescal_wrapper step by step, with the random sources it reads.  Two    *)
(* calls run on the workers of joblib.Parallel; a random source is the     *)
(* state of the process that owns it: one per worker process under the     *)
(* process backends, one for all workers under the thread backend.         *)
(***************************************************************************)
MaxDrawn == 1

TrialThreads == {1, 2}

Backends == {"loky", "multiprocessing", "threading"}

InitModes == {"nnsvd", "random"}

\* the stream a source is on when nothing has seeded it
Unseeded == 0 - 1

\* np.random.seed(s): the source restarts the stream of s
rng_seed(s) == [seed |-> s, drawn |-> 0]

\* the numbers a rand call returns: the next ones of the stream the source is on
rng_value(lib, st) == [lib |-> lib, stream |-> st.seed, index |-> st.drawn]

\* the source after a rand call
rng_advance(st) == [st EXCEPT !.drawn = @ + 1]

\* the states a source can be in before a call
RngStates == { [seed |-> Unseeded, drawn |-> d] : d \in 0..MaxDrawn }

\* the process whose random sources worker w reads
source_of(backend, w) == IF backend = "threading" THEN 0 ELSE w

Sources(backend) == { source_of(backend, w) : w \in TrialThreads }

\* nnsvd(tmp, k) of the perturbed matrices, or np.random.rand(n, k)
factor_init(kind, from) == [kind |-> kind, from |-> from]

\* (A, R, error): R_update, rescal and relative_error_rescal applied to Y, A, R
kernel_result(Y, A, R0, k) == [Y |-> Y, A |-> A, R0 |-> R0, k |-> k]

\* the whole of _rescal_wrapper run without interruption from source states np_st, cp_st
wrapper_alone(seed, init, gpu, k, np_st, cp_st) ==
    LET s1 == rng_seed(seed)
        Y  == rng_value("np", s1)
        s2 == rng_advance(s1)
        A  == IF init = "nnsvd"
              THEN factor_init("nnsvd", Y)
              ELSE factor_init("random", rng_value("np", s2))
        s3 == IF init = "nnsvd" THEN s2 ELSE rng_advance(s2)
        R0 == IF gpu THEN rng_value("cp", cp_st) ELSE rng_value("np", s3)
    IN  kernel_result(Y, A, R0, k)

InitTrial ==
    /\ n_nodes = 1
    /\ n_perturbs = MaxPerturbs
    /\ n_jobs = Cardinality(TrialThreads)
    /\ use_gpu \in BOOLEAN
    /\ save_output = FALSE
    /\ collect_output = FALSE
    /\ Ks_arg = <<>>
    /\ pc = [n \in Nodes |-> "fit"]
    /\ Ks = [n \in Nodes |-> <<>>]
    /\ i = [n \in Nodes |-> 0]
    /\ p = [n \in Nodes |-> 0]
    /\ running = [n \in Nodes |-> {}]
    /\ current_pert_results = [n \in Nodes |-> <<>>]
    /\ completion = [n \in Nodes |-> <<>>]
    /\ A_all = [n \in Nodes |-> <<>>]
    /\ R_all = [n \in Nodes |-> <<>>]
    /\ errors = [n \in Nodes |-> <<>>]
    /\ series = [n \in Nodes |-> [s \in StatNames |-> <<>>]]
    /\ decomp_data = [n \in Nodes |-> <<>>]
    /\ npz = [n \in Nodes |-> {}]
    /\ all_share_data = <<>>
    /\ results = <<>>
    /\ plot_final = {}
    /\ ck = NoCall
    /\ n_gpus = IF use_gpu THEN n_jobs ELSE 0
    /\ failed = [n \in Nodes |-> {}]
    /\ ct = NoInit
    /\ X = [n \in Nodes |-> Dataset]
    /\ experiment_dir = FALSE
    /\ vu = NoClean
    /\ vo = NoObject
    /\ \E backend \in Backends, init \in InitModes, k \in {MaxRank},
          seeds \in [TrialThreads -> 0..(MaxPerturbs - 1)] :
          \E np0 \in [Sources(backend) -> RngStates],
             cp0 \in [Sources(backend) -> RngStates] :
             tr = [backend |-> backend, init |-> init, k |-> k,
                   np |-> np0, cp |-> cp0, np0 |-> np0, cp0 |-> cp0,
                   th |-> [w \in TrialThreads |->
                             [seed |-> seeds[w], pc |-> "seed",
                              Y |-> <<>>, A |-> <<>>, out |-> <<>>]]]

\* line 83: np.random.seed(perturbation)
TrialSeed(w) ==
    /\ tr.th[w].pc = "seed"
    /\ tr' = [tr EXCEPT !.np[source_of(tr.backend, w)] = rng_seed(tr.th[w].seed),
                        !.th[w].pc = "perturb"]
    /\ UNCHANGED <<cfgVars, fitVars, ck, ct, vu, vo>>

\* line 86: Y = [uniform_product(X_, epsilon) for X_ in X], noise from np.random
TrialPerturb(w) ==
    /\ tr.th[w].pc = "perturb"
    /\ LET s == source_of(tr.backend, w)
       IN  tr' = [tr EXCEPT !.th[w].Y = <<rng_value("np", tr.np[s])>>,
                            !.np[s] = rng_advance(@),
                            !.th[w].pc = "init"]
    /\ UNCHANGED <<cfgVars, fitVars, ck, ct, vu, vo>>

\* lines 89-101: A from nnsvd of Y, or from np.random.rand
TrialInit(w) ==
    /\ tr.th[w].pc = "init"
    /\ LET s == source_of(tr.backend, w)
       IN  IF tr.init = "nnsvd"
           THEN tr' = [tr EXCEPT !.th[w].A = <<factor_init("nnsvd", tr.th[w].Y[1])>>,
                                 !.th[w].pc = "cores"]
           ELSE tr' = [tr EXCEPT !.th[w].A =
                                    <<factor_init("random", rng_value("np", tr.np[s]))>>,
                                 !.np[s] = rng_advance(@),
                                 !.th[w].pc = "cores"]
    /\ UNCHANGED <<cfgVars, fitVars, ck, ct, vu, vo>>

\* lines 103-141: the seeds of R from cp.random (device) or np.random, then the kernel
TrialCores(w) ==
    /\ tr.th[w].pc = "cores"
    /\ LET s == source_of(tr.backend, w)
       IN  IF use_gpu
           THEN tr' = [tr EXCEPT !.th[w].out =
                                    <<kernel_result(tr.th[w].Y[1], tr.th[w].A[1],
                                                    rng_value("cp", tr.cp[s]), tr.k)>>,
                                 !.cp[s] = rng_advance(@),
                                 !.th[w].pc = "done"]
           ELSE tr' = [tr EXCEPT !.th[w].out =
                                    <<kernel_result(tr.th[w].Y[1], tr.th[w].A[1],
                                                    rng_value("np", tr.np[s]), tr.k)>>,
                                 !.np[s] = rng_advance(@),
                                 !.th[w].pc = "done"]
    /\ UNCHANGED <<cfgVars, fitVars, ck, ct, vu, vo>>

NextTrial ==
    \/ \E w \in TrialThreads : TrialSeed(w)
    \/ \E w \in TrialThreads : TrialPerturb(w)
    \/ \E w \in TrialThreads : TrialInit(w)
    \/ \E w \in TrialThreads : TrialCores(w)

SpecTrial == InitTrial /\ [][NextTrial]_vars

(***************************************************************************)
(* One construction of RESCALk: the requested n_jobs and use_gpu, the      *)
(* machine's devices and CPUs, and the outcome of __init__.                *)
(***************************************************************************)
InitNew ==
    /\ n_nodes \in 1..MaxNodes
    /\ n_perturbs \in 1..MaxPerturbs
    /\ n_jobs \in (0 - MaxCPUs)..(MaxCPUs + 1)
    /\ use_gpu \in BOOLEAN
    /\ save_output = FALSE
    /\ collect_output = FALSE
    /\ Ks_arg \in RankLists(1) \cup {<<>>}
    /\ pc = [n \in Nodes |-> "fit"]
    /\ Ks = [n \in Nodes |-> <<>>]
    /\ i = [n \in Nodes |-> 0]
    /\ p = [n \in Nodes |-> 0]
    /\ running = [n \in Nodes |-> {}]
    /\ current_pert_results = [n \in Nodes |-> <<>>]
    /\ completion = [n \in Nodes |-> <<>>]
    /\ A_all = [n \in Nodes |-> <<>>]
    /\ R_all = [n \in Nodes |-> <<>>]
    /\ errors = [n \in Nodes |-> <<>>]
    /\ series = [n \in Nodes |-> [s \in StatNames |-> <<>>]]
    /\ decomp_data = [n \in Nodes |-> <<>>]
    /\ npz = [n \in Nodes |-> {}]
    /\ all_share_data = <<>>
    /\ results = <<>>
    /\ plot_final = {}
    /\ ck = NoCall
    /\ n_gpus \in 0..MaxGPUs
    /\ failed = [n \in Nodes |-> {}]
    /\ tr = NoTrial
    /\ X = [n \in Nodes |-> Dataset]
    /\ experiment_dir = FALSE
    /\ vu = NoClean
    /\ vo = NoObject
    /\ \E cpus \in 1..MaxCPUs,
          init \in init_options \cup {"other"},
          method \in avail_rescal_methods \cup {"other"},
          func \in {"None", "rescal_func"},
          mpi \in (IF n_nodes > 1 THEN BOOLEAN ELSE {TRUE}) :
          ct = [state |-> "new", n_jobs |-> n_jobs, use_gpu |-> use_gpu,
                cpus |-> cpus, warnings |-> {},
                init |-> init, rescal_method |-> method, rescal_func |-> func,
                mpi |-> mpi, rescal |-> "None", rescal_params |-> NoParams]

\* lines 277-365 (save_output is False here, so lines 258-274 do nothing): the
\* first failing check ends the constructor; n_jobs and use_gpu are the
\* arguments before, the attributes after
Construct ==
    /\ ct.state = "new"
    /\ LET r == init_resources(ct.n_jobs, ct.use_gpu, n_gpus, ct.cpus, n_perturbs)
           w == init_warnings(ct.n_jobs, ct.use_gpu, n_gpus, ct.cpus)
           kernel == select_kernel(ct.rescal_method, ct.rescal_func, r.use_gpu)
       IN  IF ct.init \notin init_options
           THEN /\ ct' = [ct EXCEPT !.state = "raised"]
                /\ UNCHANGED <<n_jobs, use_gpu>>
           ELSE IF n_nodes > 1 /\ ~ct.mpi
           THEN /\ ct' = [ct EXCEPT !.state = "exited"]
                /\ UNCHANGED <<n_jobs, use_gpu>>
           ELSE IF ~r.ok
           THEN /\ ct' = [ct EXCEPT !.state = "raised", !.warnings = w]
                /\ UNCHANGED <<n_jobs, use_gpu>>
           ELSE IF ct.rescal_method \notin avail_rescal_methods
           THEN /\ ct' = [ct EXCEPT !.state = "raised", !.warnings = w]
                /\ UNCHANGED <<n_jobs, use_gpu>>
           ELSE /\ n_jobs' = r.n_jobs
                /\ use_gpu' = r.use_gpu
                /\ ct' = [ct EXCEPT !.state = "ok", !.warnings = w,
                                    !.rescal = kernel.rescal,
                                    !.rescal_params = kernel.rescal_params]
    /\ UNCHANGED <<n_nodes, n_perturbs, save_output, collect_output, Ks_arg, n_gpus,
                   fitVars, ck, tr, vu, vo>>

\* fit can be called on an object only; its first steps, up to the calls of the
\* trial runner
NextNew ==
    \/ Construct
    \/ \E n \in Nodes : ct.state = "ok" /\ FitBegin(n)
    \/ \E n \in Nodes : ct.state = "ok" /\ SeqTrialStart(n)
    \/ \E n \in Nodes : ct.state = "ok" /\ ParStart(n)

SpecInit == InitNew /\ [][NextNew]_vars

\* the arguments other than n_jobs and use_gpu pass their checks
other_args_valid ==
    /\ ct.init \in init_options
    /\ ct.rescal_method \in avail_rescal_methods
    /\ n_nodes > 1 => ct.mpi

\* the resource count the request is measured against
available == IF ct.use_gpu /\ n_gpus > 0 THEN n_gpus ELSE ct.cpus

(***************************************************************************)
(* Vulture._clean_helper: the sequential path and _parallel_helper with    *)
(* its workers.  A document is its identifier and the cleaners applied to  *)
(* it so far; slot s of Python's list is element s + 1 here.               *)
(***************************************************************************)
\* cleaner(doc)
cleaner(c, doc) == [doc EXCEPT !.applied = Append(@, c)]

\* range(0, total_length, chunk_size)
range_starts(total_length, chunk_size) ==
    { a \in 0..(total_length - 1) : a % chunk_size = 0 }

\* a chunk that runs one slot into the next chunk
chunk_end_overlapping(a, chunk_size, total_length) ==
    Min(a + chunk_size + 1, total_length)

\* line 247: min(i + chunk_size, total_length)
chunk_end(a, chunk_size, total_length) == Min(a + chunk_size, total_length)

\* line 197: the loop over steps has run every cleaner
seq_done(done_steps, steps) == done_steps >= steps

InitVulture ==
    /\ n_nodes = 1
    /\ n_perturbs = 1
    /\ n_jobs = 1
    /\ use_gpu = FALSE
    /\ save_output = FALSE
    /\ collect_output = FALSE
    /\ Ks_arg = <<>>
    /\ pc = [n \in Nodes |-> "fit"]
    /\ Ks = [n \in Nodes |-> <<>>]
    /\ i = [n \in Nodes |-> 0]
    /\ p = [n \in Nodes |-> 0]
    /\ running = [n \in Nodes |-> {}]
    /\ current_pert_results = [n \in Nodes |-> <<>>]
    /\ completion = [n \in Nodes |-> <<>>]
    /\ A_all = [n \in Nodes |-> <<>>]
    /\ R_all = [n \in Nodes |-> <<>>]
    /\ errors = [n \in Nodes |-> <<>>]
    /\ series = [n \in Nodes |-> [s \in StatNames |-> <<>>]]
    /\ decomp_data = [n \in Nodes |-> <<>>]
    /\ npz = [n \in Nodes |-> {}]
    /\ all_share_data = <<>>
    /\ results = <<>>
    /\ plot_final = {}
    /\ ck = NoCall
    /\ n_gpus = 0
    /\ failed = [n \in Nodes |-> {}]
    /\ tr = NoTrial
    /\ ct = NoInit
    /\ X = [n \in Nodes |-> Dataset]
    /\ experiment_dir = FALSE
    /\ vo = NoObject
    /\ \E len \in 0..MaxDocs, jobs \in 1..MaxJobs, steps \in 1..MaxSteps :
          vu = [state |-> "new",
                documents |-> [d \in 1..len |-> [id |-> d, applied |-> <<>>]],
                n_jobs |-> jobs, steps |-> steps, j |-> 0,
                shared |-> <<>>, par_jobs |-> 0, chunk_size |-> 0,
                tasks |-> {}, result |-> <<>>]

\* lines 194-196, 205 and 231-236: the path is chosen; the parallel path
\* computes its worker count and chunk size and copies the list
CleanBegin ==
    /\ vu.state = "new"
    /\ IF vu.n_jobs = 1
       THEN vu' = [vu EXCEPT !.state = "seq", !.shared = vu.documents]
       ELSE LET total_length == Len(vu.documents)
                jobs == Min(total_length, vu.n_jobs)
            IN  IF jobs = 0
                THEN vu' = [vu EXCEPT !.state = "ZeroDivisionError"]
                ELSE vu' = [vu EXCEPT !.state = "par", !.shared = vu.documents,
                                      !.par_jobs = jobs,
                                      !.chunk_size = total_length \div jobs]
    /\ UNCHANGED <<cfgVars, fitVars, ck, tr, ct, vo>>

\* lines 197-203 and 206: one cleaner over the whole list; after the last, return
CleanSeqStep ==
    /\ vu.state = "seq"
    /\ IF seq_done(vu.j, vu.steps)
       THEN vu' = [vu EXCEPT !.state = "done", !.result = vu.shared]
       ELSE vu' = [vu EXCEPT !.shared = [d \in DOMAIN vu.shared |->
                                            cleaner(vu.j + 1, vu.shared[d])],
                             !.j = @ + 1]
    /\ UNCHANGED <<cfgVars, fitVars, ck, tr, ct, vo>>

\* lines 241-249: the chunks of the next cleaner are handed to Parallel
ParallelDispatch ==
    /\ vu.state = "par"
    /\ vu.tasks = {}
    /\ vu.j < vu.steps
    /\ LET total_length == Len(vu.shared)
       IN  vu' = [vu EXCEPT !.tasks =
                     { [chunk_start |-> a,
                        chunk_end |-> chunk_end(a, vu.chunk_size, total_length),
                        pos |-> a, st |-> "pending"]
                       : a \in range_starts(total_length, vu.chunk_size) }]
    /\ UNCHANGED <<cfgVars, fitVars, ck, tr, ct, vo>>

\* a free worker of the pool takes a pending chunk
WorkerStart ==
    /\ vu.state = "par"
    /\ Cardinality({t \in vu.tasks : t.st = "running"}) < vu.par_jobs
    /\ \E t \in vu.tasks :
          /\ t.st = "pending"
          /\ vu' = [vu EXCEPT !.tasks = (@ \ {t}) \cup {[t EXCEPT !.st = "running"]}]
    /\ UNCHANGED <<cfgVars, fitVars, ck, tr, ct, vo>>

\* lines 254-256: _parallel_worker cleans the next document of its range
WorkerStep ==
    /\ vu.state = "par"
    /\ \E t \in vu.tasks :
          /\ t.st = "running"
          /\ vu' = [vu EXCEPT
                      !.shared[t.pos + 1] = cleaner(vu.j + 1, @),
                      !.tasks = (@ \ {t}) \cup
                          {[t EXCEPT !.pos = @ + 1,
                                     !.st = IF t.pos + 1 >= t.chunk_end
                                            THEN "done" ELSE "running"]}]
    /\ UNCHANGED <<cfgVars, fitVars, ck, tr, ct, vo>>

\* lines 245 and 250: Parallel returns when every chunk is done; after the last
\* cleaner the shared list is returned
ParallelJoin ==
    /\ vu.state = "par"
    /\ vu.tasks # {}
    /\ \A t \in vu.tasks : t.st = "done"
    /\ IF vu.j + 1 >= vu.steps
       THEN vu' = [vu EXCEPT !.j = @ + 1, !.tasks = {}, !.state = "done",
                             !.result = vu.shared]
       ELSE vu' = [vu EXCEPT !.j = @ + 1, !.tasks = {}]
    /\ UNCHANGED <<cfgVars, fitVars, ck, tr, ct, vo>>

NextVulture ==
    \/ CleanBegin
    \/ CleanSeqStep
    \/ ParallelDispatch
    \/ WorkerStart
    \/ WorkerStep
    \/ ParallelJoin

SpecVulture == InitVulture /\ [][NextVulture]_vars

\* what the sequential path returns for the documents: every cleaner, in order
RECURSIVE clean_all(_, _, _)
clean_all(doc, from, steps) ==
    IF from > steps THEN doc ELSE clean_all(cleaner(from, doc), from + 1, steps)

(***************************************************************************)
(* The Vulture object: the validated attributes (setters of n_jobs,        *)
(* n_nodes and parallel_backend) and Vulture.clean, one process per node.  *)
(* A Python value is its type and its content (v a number, s a string).    *)
(***************************************************************************)
PyInt(v) == [type |-> "int", v |-> v, s |-> ""]

\* the values tried for n_jobs and n_nodes: integers around the limits, a
\* bool and a str
NumberArgs ==
    { PyInt(v) : v \in (0 - MaxCPUs - 1)..(MaxCPUs + 1) }
    \cup { [type |-> "bool", v |-> b, s |-> ""] : b \in 0..1 }
    \cup { [type |-> "str", v |-> 0, s |-> "2"] }

\* line 72
PARALLEL_BACKEND_OPTIONS == {"loky", "multiprocessing", "threading"}

\* the values tried for parallel_backend
BackendArgs ==
    { [type |-> "str", v |-> 0, s |-> b] : b \in PARALLEL_BACKEND_OPTIONS \cup {"dask"} }
    \cup { [type |-> "NoneType", v |-> 0, s |-> "None"] }

\* isinstance(x, int): a bool is an int
isinstance_int(x) == x.type \in {"int", "bool"}

abs(v) == IF v < 0 THEN 0 - v ELSE v

Stored(v) == [exc |-> "none", value |-> v]

Raised(e) == [exc |-> e, value |-> 0]

\* a negative n_jobs counted from cpu_count without the + 1
n_jobs_stored_from_zero(v, cpu_count) ==
    IF v < 0 THEN cpu_count - abs(v) ELSE v

\* lines 298-301
n_jobs_stored(v, cpu_count) ==
    IF v < 0 THEN cpu_count - abs(v) + 1 ELSE v

\* lines 289-301
n_jobs_setter(arg, cpu_count) ==
    IF ~isinstance_int(arg) THEN Raised("TypeError")
    ELSE LET limit == cpu_count + arg.v
         IN  IF arg.v = 0 \/ limit < 0 \/ 2 * cpu_count < limit
             THEN Raised("ValueError")
             ELSE Stored(n_jobs_stored(arg.v, cpu_count))

\* lines 303-311
n_nodes_setter(arg, mpi) ==
    IF ~isinstance_int(arg) THEN Raised("TypeError")
    ELSE IF 1 > arg.v THEN Raised("ValueError")
    ELSE IF 1 < arg.v /\ ~mpi THEN Raised("ImportError")
    ELSE Stored(arg.v)

\* lines 313-319
parallel_backend_setter(arg) ==
    IF arg.type # "str" THEN Raised("TypeError")
    ELSE IF arg.s \notin PARALLEL_BACKEND_OPTIONS THEN Raised("ValueError")
    ELSE [exc |-> "none", value |-> arg.s]

\* the object's processes: MPI ranks 0 .. n_nodes - 1
ObjNodes == IF vo.state = "clean" THEN 0..(vo.n_nodes - 1) ELSE {}

\* line 259
use_mpi == 1 < vo.n_nodes

\* lines 35-61: the sub-lists the generator yields, in order
RECURSIVE chunk_tuple_list_from(_, _, _, _)
chunk_tuple_list_from(l, n_chunks, c, start) ==
    IF c >= n_chunks THEN <<>>
    ELSE LET chunk_size == Len(l) \div n_chunks
             remainder == Len(l) % n_chunks
             end == start + chunk_size + (IF c < remainder THEN 1 ELSE 0)
         IN  <<SubSeq(l, start + 1, end)>>
             \o chunk_tuple_list_from(l, n_chunks, c + 1, end)

chunk_tuple_list(l, n_chunks) ==
    IF n_chunks <= 0 THEN <<>> ELSE chunk_tuple_list_from(l, n_chunks, 0, 0)

\* lines 194-206 with 230-250: what _clean_helper returns or raises
clean_helper(docs, jobs, steps) ==
    IF jobs # 1 /\ Min(Len(docs), jobs) = 0
    THEN [exc |-> "ZeroDivisionError", docs |-> <<>>]
    ELSE [exc |-> "none",
          docs |-> [d \in DOMAIN docs |-> clean_all(docs[d], 1, steps)]]

\* dict(clean_documents): from document id to content
dict(pairs) ==
    [k \in {pairs[d].id : d \in DOMAIN pairs} |->
        LET last == CHOOSE d \in DOMAIN pairs :
                       /\ pairs[d].id = k
                       /\ \A e \in DOMAIN pairs : pairs[e].id = k => e <= d
        IN  pairs[last].applied]

\* list(documents.items())
items(len) == [d \in 1..len |-> [id |-> d, applied |-> <<>>]]

\* line 152: self._save_documents(documents) pickles the argument of clean
saved_content(documents, clean_documents) == dict(documents)

SavePaths == {"None", "new", "existing", "no_parent"}

InitObject ==
    /\ n_nodes = 1
    /\ n_perturbs = 1
    /\ n_jobs = 1
    /\ use_gpu = FALSE
    /\ save_output = FALSE
    /\ collect_output = FALSE
    /\ Ks_arg = <<>>
    /\ pc = [n \in Nodes |-> "fit"]
    /\ Ks = [n \in Nodes |-> <<>>]
    /\ i = [n \in Nodes |-> 0]
    /\ p = [n \in Nodes |-> 0]
    /\ running = [n \in Nodes |-> {}]
    /\ current_pert_results = [n \in Nodes |-> <<>>]
    /\ completion = [n \in Nodes |-> <<>>]
    /\ A_all = [n \in Nodes |-> <<>>]
    /\ R_all = [n \in Nodes |-> <<>>]
    /\ errors = [n \in Nodes |-> <<>>]
    /\ series = [n \in Nodes |-> [s \in StatNames |-> <<>>]]
    /\ decomp_data = [n \in Nodes |-> <<>>]
    /\ npz = [n \in Nodes |-> {}]
    /\ all_share_data = <<>>
    /\ results = <<>>
    /\ plot_final = {}
    /\ ck = NoCall
    /\ n_gpus = 0
    /\ failed = [n \in Nodes |-> {}]
    /\ tr = NoTrial
    /\ ct = NoInit
    /\ X = [n \in Nodes |-> Dataset]
    /\ experiment_dir = FALSE
    /\ vu = NoClean
    /\ \E cpus \in 1..MaxCPUs, mpi \in BOOLEAN :
          vo = [state |-> "new", cpu_count |-> cpus, mpi |-> mpi,
                n_jobs |-> 0, n_nodes |-> 0, parallel_backend |-> "unset",
                attr |-> "none", arg |-> PyInt(0), exc |-> "none",
                documents |-> <<>>, steps |-> 0, save_path |-> "None",
                pc |-> <<>>, chunk |-> <<>>, clean_documents |-> <<>>,
                file |-> [kind |-> "absent", content |-> <<>>],
                returned |-> <<>>]

\* lines 102-105: the constructor assigns the three arguments through the
\* setters, in this order; the first exception ends it
VultureNew ==
    /\ vo.state = "new"
    /\ \E a \in NumberArgs, b \in NumberArgs, c \in BackendArgs :
          LET j == n_jobs_setter(a, vo.cpu_count)
              n == n_nodes_setter(b, vo.mpi)
              e == parallel_backend_setter(c)
          IN  IF j.exc # "none"
              THEN vo' = [vo EXCEPT !.state = "raised", !.attr = "n_jobs",
                                    !.arg = a, !.exc = j.exc]
              ELSE IF n.exc # "none"
              THEN vo' = [vo EXCEPT !.state = "raised", !.attr = "n_nodes",
                                    !.arg = b, !.exc = n.exc,
                                    !.n_jobs = j.value]
              ELSE IF e.exc # "none"
              THEN vo' = [vo EXCEPT !.state = "raised",
                                    !.attr = "parallel_backend",
                                    !.arg = c, !.exc = e.exc,
                                    !.n_jobs = j.value, !.n_nodes = n.value]
              ELSE vo' = [vo EXCEPT !.state = "object",
                                    !.n_jobs = j.value, !.n_nodes = n.value,
                                    !.parallel_backend = e.value]
    /\ UNCHANGED <<cfgVars, fitVars, ck, tr, ct, vu>>

\* lines 289-301: vulture.n_jobs = a
Assign_n_jobs ==
    /\ vo.state = "object"
    /\ \E a \in NumberArgs :
          LET r == n_jobs_setter(a, vo.cpu_count)
          IN  vo' = [vo EXCEPT !.attr = "n_jobs", !.arg = a, !.exc = r.exc,
                               !.n_jobs = IF r.exc = "none" THEN r.value ELSE @]
    /\ UNCHANGED <<cfgVars, fitVars, ck, tr, ct, vu>>

\* lines 303-311: vulture.n_nodes = a
Assign_n_nodes ==
    /\ vo.state = "object"
    /\ \E a \in NumberArgs :
          LET r == n_nodes_setter(a, vo.mpi)
          IN  vo' = [vo EXCEPT !.attr = "n_nodes", !.arg = a, !.exc = r.exc,
                               !.n_nodes = IF r.exc = "none" THEN r.value ELSE @]
    /\ UNCHANGED <<cfgVars, fitVars, ck, tr, ct, vu>>

\* lines 313-319: vulture.parallel_backend = a
Assign_parallel_backend ==
    /\ vo.state = "object"
    /\ \E a \in BackendArgs :
          LET r == parallel_backend_setter(a)
          IN  vo' = [vo EXCEPT !.attr = "parallel_backend", !.arg = a,
                               !.exc = r.exc,
                               !.parallel_backend =
                                   IF r.exc = "none" THEN r.value ELSE @]
    /\ UNCHANGED <<cfgVars, fitVars, ck, tr, ct, vu>>

\* vulture.clean(documents, steps, save_path=...) is called on every node
CleanCall ==
    /\ vo.state = "object"
    /\ \E len \in 0..MaxDocs, steps \in 1..MaxSteps, path \in SavePaths :
          vo' = [vo EXCEPT
                   !.state = "clean",
                   !.documents = items(len),
                   !.steps = steps,
                   !.save_path = path,
                   !.pc = [n \in 0..(vo.n_nodes - 1) |-> "start"],
                   !.clean_documents = [n \in 0..(vo.n_nodes - 1) |-> <<>>],
                   !.file = [kind |-> IF path = "existing" THEN "old" ELSE "absent",
                             content |-> <<>>],
                   !.returned = [n \in 0..(vo.n_nodes - 1) |->
                                    [kind |-> "unset", value |-> <<>>]]]
    /\ UNCHANGED <<cfgVars, fitVars, ck, tr, ct, vu>>

\* line 123 with 335-349: the save_path setter; `warnings` is not a name of
\* the module, so the warning for an existing file raises NameError
save_path_setter(path) ==
    IF path = "None" THEN "none"
    ELSE IF path = "no_parent" THEN "ValueError"
    ELSE IF path = "existing" THEN "NameError"
    ELSE "none"

\* lines 123-141: up to the barrier.  With several nodes rank 0 saves the
\* raw chunks: _mpi_save_chunk_to_disk evaluates os.path.join (line 172) and
\* `os` is not a name of the module, so the first save raises NameError;
\* the other ranks call comm.Barrier() and wait for rank 0
CleanStart(n) ==
    /\ vo.state = "clean"
    /\ vo.pc[n] = "start"
    /\ LET e == save_path_setter(vo.save_path)
       IN  IF e # "none"
           THEN vo' = [vo EXCEPT !.pc[n] = e]
           ELSE IF use_mpi
           THEN IF n = 0
                THEN vo' = [vo EXCEPT
                              !.chunk = chunk_tuple_list(vo.documents, vo.n_nodes)[1],
                              !.pc[n] = "NameError"]
                ELSE vo' = [vo EXCEPT !.pc[n] = "Barrier"]
           ELSE vo' = [vo EXCEPT !.clean_documents[n] = vo.documents,
                                 !.pc[n] = "helper"]
    /\ UNCHANGED <<cfgVars, fitVars, ck, tr, ct, vu>>

\* line 144
CleanHelper(n) ==
    /\ vo.state = "clean"
    /\ vo.pc[n] = "helper"
    /\ LET r == clean_helper(vo.clean_documents[n], vo.n_jobs, vo.steps)
       IN  IF r.exc # "none"
           THEN vo' = [vo EXCEPT !.pc[n] = r.exc]
           ELSE vo' = [vo EXCEPT !.clean_documents[n] = r.docs,
                                 !.pc[n] = "cleaned"]
    /\ UNCHANGED <<cfgVars, fitVars, ck, tr, ct, vu>>

\* lines 150-154
CleanReturn(n) ==
    /\ vo.state = "clean"
    /\ vo.pc[n] = "cleaned"
    /\ IF vo.save_path # "None"
       THEN vo' = [vo EXCEPT
                     !.file = [kind |-> "written",
                               content |-> saved_content(vo.documents,
                                                         vo.clean_documents[n])],
                     !.returned[n] = [kind |-> "None", value |-> <<>>],
                     !.pc[n] = "returned"]
       ELSE vo' = [vo EXCEPT
                     !.returned[n] = [kind |-> "dict",
                                      value |-> dict(vo.clean_documents[n])],
                     !.pc[n] = "returned"]
    /\ UNCHANGED <<cfgVars, fitVars, ck, tr, ct, vu>>

NextObject ==
    \/ VultureNew
    \/ Assign_n_jobs
    \/ Assign_n_nodes
    \/ Assign_parallel_backend
    \/ CleanCall
    \/ \E n \in ObjNodes : CleanStart(n)
    \/ \E n \in ObjNodes : CleanHelper(n)
    \/ \E n \in ObjNodes : CleanReturn(n)

SpecObject == InitObject /\ [][NextObject]_vars

(***************************************************************************)
(* Properties                                                              *)
(***************************************************************************)
Stacked == {"cluster", "regress", "save"}

CurrentRank(n) == Ks[n][i[n] + 1]

Ascending(s) == \A a, b \in DOMAIN s : a < b => s[a] < s[b]

Distinct(s) == \A a, b \in DOMAIN s : a # b => s[a] # s[b]

RECURSIVE SumLen(_, _)
SumLen(chunks, upto) ==
    IF upto = 0 THEN 0 ELSE SumLen(chunks, upto - 1) + Len(chunks[upto])

\* C1: whenever a rank's trial outputs are stacked, on the parallel and on the
\* sequential path, slot p of A_all, R_all and errors holds the output of the
\* trial launched with seed p, whatever the order in which the trials completed.
C1_SeedOrder ==
    \A n \in Nodes :
        pc[n] \in Stacked =>
            /\ Len(A_all[n]) = n_perturbs
            /\ Len(R_all[n]) = n_perturbs
            /\ Len(errors[n]) = n_perturbs
            /\ \A q \in 0 .. (n_perturbs - 1) :
                  /\ A_all[n][q + 1] = rescal_wrapper(q, CurrentRank(n)).w
                  /\ R_all[n][q + 1] = rescal_wrapper(q, CurrentRank(n)).h
                  /\ errors[n][q + 1] = rescal_wrapper(q, CurrentRank(n)).e

\* a parallel rank is stacked although its trials completed out of seed order
C1_Witness ==
    \E n \in Nodes :
        /\ pc[n] = "cluster"
        /\ n_jobs > 1
        /\ \E a, b \in DOMAIN completion[n] : a < b /\ completion[n][a] > completion[n][b]

\* C2: with device acceleration and n_jobs > 1, no two trials running at the
\* same time on a node use the same device index.
C2_OneTrialPerDevice ==
    (use_gpu /\ n_jobs > 1) =>
        \A n \in Nodes : \A t1, t2 \in running[n] :
            t1 # t2 => t1.gpuid # t2.gpuid

\* C3: the consensus step of a rank runs only when all n_perturbs trials of that
\* rank have completed; a trial runs only while every earlier rank of the node
\* has its consensus finished (all rows appended, artifact saved); all trials
\* running on a node belong to the rank the node is at.
C3_RanksSequential ==
    \A n \in Nodes :
        /\ pc[n] \in Stacked =>
              /\ running[n] = {}
              /\ Len(completion[n]) = n_perturbs
              /\ {completion[n][j] : j \in DOMAIN completion[n]} = 0 .. (n_perturbs - 1)
        /\ \A t \in running[n] :
              /\ pc[n] = "trials"
              /\ t.k = CurrentRank(n)
              /\ \A s \in StatNames : Len(series[n][s]) = i[n]
              /\ save_output => npz[n] = {Ks[n][j] : j \in 1 .. i[n]}
              /\ collect_output => Len(decomp_data[n]) = i[n]

\* two trials of a later rank of the node run in parallel
C3_Witness ==
    \E n \in Nodes : i[n] >= 1 /\ Cardinality(running[n]) >= 2

\* C4: for 1 <= N <= len(Ks), chunk i of _chunk_Ks(Ks, N) is the elements of Ks
\* at the positions i, i+N, i+2N, ..., in increasing position order.
C4_RoundRobin ==
    (ck.done /\ ck.n_chunks <= Len(ck.Ks)) =>
        \A c \in 0 .. (ck.n_chunks - 1) :
            LET L == Len(ck.Ks)
                N == ck.n_chunks
                cnt == (L - c + N - 1) \div N
            IN  /\ c + 1 \in DOMAIN ck.chunks
                /\ ck.chunks[c + 1] = [j \in 1..cnt |-> ck.Ks[c + (j - 1) * N + 1]]

\* a list of 4 ranks was split into 3 chunks
C4_Witness ==
    ck.done /\ ck.n_chunks = 3 /\ Len(ck.Ks) = 4

\* C5: for N <= L, _chunk_Ks returns exactly N chunks, each of size floor(L/N)
\* or ceil(L/N), the sizes sum to L, and when the ranks are distinct every rank
\* is in exactly one chunk exactly once.
C5_BalancedPartition ==
    (ck.done /\ ck.n_chunks <= Len(ck.Ks)) =>
        LET L == Len(ck.Ks)
            N == ck.n_chunks
        IN  /\ Len(ck.chunks) = N
            /\ \A c \in DOMAIN ck.chunks :
                  Len(ck.chunks[c]) \in {L \div N, (L + N - 1) \div N}
            /\ SumLen(ck.chunks, Len(ck.chunks)) = L
            /\ Distinct(ck.Ks) =>
                  \A r \in {ck.Ks[j] : j \in DOMAIN ck.Ks} :
                      Cardinality({cj \in (DOMAIN ck.chunks) \X (1..L) :
                                      /\ cj[2] \in DOMAIN ck.chunks[cj[1]]
                                      /\ ck.chunks[cj[1]][cj[2]] = r}) = 1

\* three distinct ranks were split into 2 chunks
C5_Witness ==
    ck.done /\ ck.n_chunks = 2 /\ Len(ck.Ks) = 3 /\ Distinct(ck.Ks)

\* C6: in multi-node mode a non-empty rank list is split into exactly n_nodes chunks and
\* every node obtains a chunk when fit selects chunk number <MPI rank>.
C6_EveryNodeHasChunk ==
    (n_nodes > 1 /\ ~empty_Ks(Ks_arg)) =>
        \A n \in Nodes :
            pc[n] # "fit" =>
                /\ pc[n] # "IndexError"
                /\ Len(chunk_Ks(Ks_arg, n_nodes)) = n_nodes

\* C7: after the merge the coordinator's ranks are ascending and entry j of every
\* series (and of the collected factors) is the value computed for rank Ks[j]
\* by the node whose chunk held that rank.
C7_MergedAligned ==
    (n_nodes > 1 /\ pc[0] \in {"final", "returned"}) =>
        /\ Ascending(Ks[0])
        /\ {Ks[0][j] : j \in DOMAIN Ks[0]} = {Ks_arg[j] : j \in DOMAIN Ks_arg}
        /\ \A s \in StatNames :
              /\ Len(series[0][s]) = Len(Ks[0])
              /\ \A j \in DOMAIN Ks[0] :
                    LET v == series[0][s][j]
                        own == all_share_data[v.node].Ks
                    IN  /\ v.stat = s
                        /\ v.k = Ks[0][j]
                        /\ \E a \in DOMAIN own : own[a] = Ks[0][j]
        /\ collect_output =>
              /\ Len(decomp_data[0]) = Len(Ks[0])
              /\ \A j \in DOMAIN Ks[0] :
                    LET d == decomp_data[0][j]
                        own == all_share_data[d.node].Ks
                    IN  /\ d.k = Ks[0][j]
                        /\ d.A = Ks[0][j]
                        /\ d.R = Ks[0][j]
                        /\ \E a \in DOMAIN own : own[a] = Ks[0][j]

\* the coordinator returned factors collected from rows that were gathered out
\* of rank order
C7_Witness ==
    /\ n_nodes > 1
    /\ pc[0] = "returned"
    /\ collect_output
    /\ DOMAIN all_share_data = Nodes
    /\ ~Ascending(all_share_data[0].Ks \o all_share_data[1].Ks)

\* C8: rows are gathered only when every node has left its rank loop with all
\* ranks of its chunk processed, so what the coordinator merges is every node's
\* full row set.
C8_GatherAfterAllDone ==
    (n_nodes > 1 /\ DOMAIN all_share_data # {}) =>
        \A m \in Nodes :
            LET chunk == chunk_Ks(Ks_arg, n_nodes)[m + 1]
            IN  /\ pc[m] \notin {"fit", "trials", "stack", "cluster", "regress", "save"}
                /\ running[m] = {}
                /\ i[m] = Len(chunk)
                /\ m \in DOMAIN all_share_data =>
                      /\ all_share_data[m].Ks = chunk
                      /\ \A s \in StatNames :
                            Len(all_share_data[m].series[s]) = Len(chunk)

\* every node's rows are gathered, one node having processed two ranks
C8_Witness ==
    /\ n_nodes > 1
    /\ DOMAIN all_share_data = Nodes
    /\ \E m \in Nodes : Len(all_share_data[m].Ks) >= 2

\* C9: in multi-node mode only the coordinator returns a bundle and writes the
\* final summary and plot; every other node that has terminated did so by
\* sys.exit after taking part in the barrier and the gather.
C9_OnlyCoordinatorReturns ==
    n_nodes > 1 =>
        /\ DOMAIN results \subseteq {0}
        /\ plot_final \subseteq {0}
        /\ \A n \in Nodes \ {0} :
              pc[n] \in {"exited", "IndexError"} =>
                  /\ pc[n] = "exited"
                  /\ n \in DOMAIN all_share_data

\* C10: before clustering the errors array has n_perturbs entries; between two
\* ranks every series of a node has as many entries as ranks were processed;
\* every series of a returned result has len(Ks) entries for the caller's Ks.
C10_Lengths ==
    /\ \A n \in Nodes :
          /\ pc[n] = "cluster" => Len(errors[n]) = n_perturbs
          /\ pc[n] \in {"trials", "stack", "cluster", "barrier", "gather", "merge",
                        "exit", "exited"} =>
                \A s \in StatNames : Len(series[n][s]) = i[n]
          /\ (n_nodes = 1 /\ pc[n] \in {"final", "returned"}) =>
                \A s \in StatNames : Len(series[n][s]) = i[n]
    /\ \A n \in DOMAIN results :
          /\ Len(results[n].plot_data.Ks) = Len(Ks_arg)
          /\ \A s \in StatNames : Len(results[n].plot_data.series[s]) = Len(Ks_arg)
          /\ collect_output => Len(results[n].all_factors) = Len(Ks_arg)

\* the coordinator of a two-node run returned a result for three ranks
C10_Witness ==
    /\ n_nodes > 1
    /\ 0 \in DOMAIN results
    /\ Len(Ks_arg) = 3

\* C11: for every rank the trials launched so far have exactly the seeds
\* 0 .. launched-1, each once, never more than n_perturbs; when the rank is
\* stacked the seeds used are exactly 0 .. n_perturbs-1, on the sequential and
\* on the parallel path alike.
C11_Seeds ==
    \A n \in Nodes :
        pc[n] \in {"trials", "stack"} \cup Stacked =>
            LET done == {completion[n][j] : j \in DOMAIN completion[n]}
                fly == {t.args.perturbation : t \in running[n]}
            IN  /\ p[n] <= n_perturbs
                /\ done \cup fly = 0 .. (p[n] - 1)
                /\ Len(completion[n]) + Cardinality(running[n]) = p[n]
                /\ Cardinality(done) = Len(completion[n])
                /\ Cardinality(fly) = Cardinality(running[n])
                /\ pc[n] \in Stacked =>
                      /\ p[n] = n_perturbs
                      /\ done = 0 .. (n_perturbs - 1)

\* the second rank of a node has all its (two or more) seeds used
C11_Witness ==
    \E n \in Nodes :
        /\ pc[n] = "cluster"
        /\ i[n] >= 1
        /\ n_perturbs >= 2
        /\ Len(completion[n]) = n_perturbs

\* C12: every call of the trial runner on the parallel path has the arguments
\* of the sequential call for the same seed and rank, the device index
\* excepted, and the stacked arrays of a rank are those the sequential calls
\* produce, seed by seed.
C12_SameAsSequential ==
    \A n \in Nodes :
        /\ \A t \in running[n] :
              [t.args EXCEPT !.gpuid = 0] = seq_call_args(t.pert, t.k)
        /\ pc[n] \in Stacked =>
              LET ref(q) == rescal_wrapper(seq_call_args(q, CurrentRank(n)).perturbation,
                                           seq_call_args(q, CurrentRank(n)).k)
              IN  /\ A_all[n] = [q \in 1..n_perturbs |-> ref(q - 1).w]
                  /\ R_all[n] = [q \in 1..n_perturbs |-> ref(q - 1).h]
                  /\ errors[n] = [q \in 1..n_perturbs |-> ref(q - 1).e]

\* a rank of two or more trials was stacked from a parallel dispatch
C12_Witness ==
    \E n \in Nodes : pc[n] = "save" /\ n_jobs > 1 /\ n_perturbs >= 2

C13_Aborted(n) ==
    /\ pc[n] = "raised"
    /\ running[n] = {}
    /\ \A t \in failed[n] : t.k = CurrentRank(n)
    /\ \A s \in StatNames : Len(series[n][s]) = i[n]
    /\ CurrentRank(n) \notin npz[n]
    /\ collect_output => Len(decomp_data[n]) = i[n]
    /\ n \notin DOMAIN results
    /\ n \notin DOMAIN all_share_data

C13_Frozen(n) ==
    /\ pc'[n] = pc[n]
    /\ failed'[n] = failed[n]
    /\ running'[n] = running[n]
    /\ i'[n] = i[n]
    /\ p'[n] = p[n]
    /\ current_pert_results'[n] = current_pert_results[n]
    /\ completion'[n] = completion[n]
    /\ A_all'[n] = A_all[n]
    /\ series'[n] = series[n]
    /\ npz'[n] = npz[n]
    /\ decomp_data'[n] = decomp_data[n]

\* C13: once a trial of rank k has raised, fit of that node has ended with the
\* error: no trial is running or is started again, no row and no artifact
\* exists for k, nothing was returned or gathered, and the node's state never
\* changes again (no consensus step, no later rank).
C13_FailFast ==
    /\ [](\A n \in Nodes : failed[n] # {} => C13_Aborted(n))
    /\ [][\A n \in Nodes : failed[n] # {} => C13_Frozen(n)]_vars

\* a trial of a node's second rank raised while trials were already completed
C13_Witness ==
    \E n \in Nodes :
        /\ failed[n] # {}
        /\ i[n] >= 1
        /\ Len(completion[n]) >= 1

\* C16: with device acceleration every running trial uses device index
\* seed mod n_jobs on the parallel path and 0 on the sequential path, and that
\* index is smaller than the number of devices.
C16_ValidDevice ==
    use_gpu =>
        \A n \in Nodes : \A t \in running[n] :
            /\ t.args.gpuid = IF n_jobs > 1 THEN t.pert % n_jobs ELSE 0
            /\ t.gpuid = t.args.gpuid
            /\ t.args.gpuid >= 0
            /\ t.args.gpuid < n_gpus

\* an accelerated trial whose seed is not smaller than n_jobs is running
C16_Witness ==
    /\ use_gpu
    /\ n_jobs > 1
    /\ \E n \in Nodes : \E t \in running[n] : t.pert >= n_jobs

\* C14: two calls of _rescal_wrapper with the same arguments, each reading
\* random sources that no other call touches, return the same (A, R, error)
\* whatever state the sources were in before the call, on the CPU path and
\* on the device path.
C14_SameArgsSameOutput ==
    \A a, b \in TrialThreads :
        ( /\ tr.backend # "threading"
          /\ tr.th[a].pc = "done"
          /\ tr.th[b].pc = "done"
          /\ tr.th[a].seed = tr.th[b].seed )
        => tr.th[a].out = tr.th[b].out

\* C15: under every backend and every interleaving of the steps of two
\* concurrent trials, a finished trial's output is the output of the same
\* call run alone from the state its process's random sources started in.
C15_NoInterference ==
    \A w \in TrialThreads :
        tr.th[w].pc = "done"
        => tr.th[w].out[1] =
              wrapper_alone(tr.th[w].seed, tr.init, use_gpu, tr.k,
                            tr.np0[source_of(tr.backend, w)],
                            tr.cp0[source_of(tr.backend, w)])

\* C17: after every successful construction 1 <= n_jobs <= the device count
\* when use_gpu is in effect, and 1 <= n_jobs <= the CPU count otherwise.
C17_WithinResources ==
    ct.state = "ok"
    => /\ 1 <= n_jobs
       /\ n_jobs <= (IF use_gpu THEN n_gpus ELSE ct.cpus)

C17_Witness ==
    /\ ct.state = "ok"
    /\ use_gpu
    /\ ct.n_jobs > n_gpus
    /\ n_jobs = n_gpus

\* C18 as stated (the other arguments being valid): a request above the available count succeeds with a
\* warning and gives n_jobs equal to the available count; n_jobs = 0 raises.
C18_ClampToAvailable ==
    (ct.state # "new" /\ other_args_valid)
    => /\ ct.n_jobs > available
          => /\ ct.state = "ok"
             /\ ct.warnings \cap {"Too many GPUs", "Too many CPUs"} # {}
             /\ n_jobs = available
       /\ ct.n_jobs = 0 => ct.state = "raised"

\* C18 (the other arguments being valid): a request above the available count succeeds with a warning and
\* gives n_jobs equal to the device count when accelerated, and to the
\* smaller of the CPU count and n_perturbs otherwise; n_jobs = 0 raises and
\* leaves no object.
C18_ClampToAvailableOrPerturbs ==
    (ct.state # "new" /\ other_args_valid)
    => /\ ct.n_jobs > available
          => /\ ct.state = "ok"
             /\ ct.warnings \cap {"Too many GPUs", "Too many CPUs"} # {}
             /\ n_jobs = (IF use_gpu THEN n_gpus ELSE Min(ct.cpus, n_perturbs))
       /\ ct.n_jobs = 0 => ct.state = "raised"

C18_Witness ==
    /\ ct.state = "ok"
    /\ ct.n_jobs > available
    /\ ~use_gpu
    /\ n_perturbs < ct.cpus
    /\ n_jobs = n_perturbs

\* C19: after every successful construction n_jobs <= n_perturbs, in CPU
\* mode and when device acceleration is in effect.
C19_AtMostPerturbs ==
    ct.state = "ok" => n_jobs <= n_perturbs

C21_CpuFallback ==
    (ct.state # "new" /\ ct.use_gpu /\ n_gpus = 0 /\ other_args_valid
       /\ resolve_n_jobs(ct.n_jobs, ct.cpus) > 0)
    => /\ ct.state = "ok"
       /\ "No GPU found" \in ct.warnings
       /\ ~use_gpu
       /\ ct.rescal_method = "rescal_fro_mu" => ~ct.rescal_params.use_gpu
       /\ n_jobs = Min(Min(resolve_n_jobs(ct.n_jobs, ct.cpus), ct.cpus), n_perturbs)
       /\ \A n \in Nodes : \A t \in running[n] : ~t.args.use_gpu

\* a fallback construction with a request above the CPU count, with a trial called
C21_Witness ==
    /\ ct.state = "ok"
    /\ ct.use_gpu
    /\ n_gpus = 0
    /\ ct.n_jobs > ct.cpus
    /\ ct.rescal_method = "rescal_fro_mu"
    /\ \E n \in Nodes : running[n] # {}

\* C22: an init mode outside {nnsvd, random}, an unknown rescal_method, an
\* n_jobs that resolves to 0 or less and n_nodes > 1 without MPI each end the
\* constructor without an object, and fit is never entered; an empty rank
\* list ends fit at its start; in each case no trial has been called.
C22_ErrorsBeforeTrials ==
    /\ ct.state # "new"
       => /\ ct.init \notin init_options => ct.state \in {"raised", "exited"}
          /\ ct.rescal_method \notin avail_rescal_methods
                => ct.state \in {"raised", "exited"}
          /\ resolve_n_jobs(ct.n_jobs, available) <= 0
                => ct.state \in {"raised", "exited"}
          /\ (n_nodes > 1 /\ ~ct.mpi) => ct.state \in {"raised", "exited"}
    /\ ct.state \in {"raised", "exited"}
       => \A n \in Nodes : pc[n] = "fit" /\ p[n] = 0 /\ running[n] = {}
    /\ \A n \in Nodes :
          (Ks_arg = <<>> /\ pc[n] # "fit")
          => pc[n] = "raised" /\ p[n] = 0 /\ running[n] = {}

\* fit was called with an empty rank list on a constructed object
C22_Witness ==
    /\ ct.state = "ok"
    /\ Ks_arg = <<>>
    /\ \E n \in Nodes : pc[n] = "raised"

\* C23: with rescal_method 'rescal_fro_mu' the built-in kernel is selected
\* with the parameters niter, use_gpu, rescal_verbose, also when a rescal_func
\* is passed; with 'func' the caller's rescal_func with rescal_obj_params;
\* every trial is called with the object's kernel and parameters.
C23_KernelSelection ==
    ct.state = "ok"
    => /\ ct.rescal_method = "rescal_fro_mu"
          => /\ ct.rescal = "rescal"
             /\ ct.rescal_params = [niter |-> "n_iters", use_gpu |-> use_gpu,
                                    rescal_verbose |-> "rescal_verbose"]
       /\ ct.rescal_method = "func"
          => /\ ct.rescal = ct.rescal_func
             /\ ct.rescal_params = [obj |-> "rescal_obj_params"]
       /\ \A n \in Nodes : \A t \in running[n] :
             /\ t.args.rescal = "self.rescal"
             /\ t.args.rescal_params = "self.rescal_params"

\* the built-in kernel was selected although a rescal_func was passed; a trial runs
C23_Witness ==
    /\ ct.state = "ok"
    /\ ct.rescal_method = "rescal_fro_mu"
    /\ ct.rescal_func # "None"
    /\ ct.rescal = "rescal"
    /\ \E n \in Nodes : running[n] # {}

\* C26: after every successful construction the selected kernel is present
\* (self.rescal is not None).
C26_KernelPresent ==
    ct.state = "ok" => ct.rescal # "None"

\* C24: a node processes its ranks in ascending order of rank value, whatever
\* the order of the caller's list, and the rows of a single-node result are
\* in ascending rank order.
C24_AscendingRanks ==
    /\ \A n \in Nodes :
          pc[n] \in {"trials", "stack", "cluster", "regress", "save"}
          => \A j \in 1..i[n] : Ks[n][j] < Ks[n][i[n] + 1]
    /\ \A n \in DOMAIN results :
          n_nodes = 1 => Ascending(results[n].plot_data.Ks)

\* C25: the input dataset of every node is, at every step of fit and after
\* it, what it was when fit was called.
C25_DatasetUnchanged ==
    \A n \in Nodes : X[n] = Dataset

\* a run with several trials and a regression has returned
C25_Witness ==
    /\ n_perturbs > 1
    /\ \E n \in Nodes : pc[n] = "returned" /\ Len(Ks[n]) > 1

\* C27: with n_nodes >= 2, a non-empty rank list and no failing trial, no node
\* waits at the barrier while another node has ended before reaching it (such
\* a node never arrives, so the waiting node never leaves fit).
C27_NoNodeWaitsForever ==
    (n_nodes >= 2 /\ Ks_arg # <<>> /\ \A m \in Nodes : failed[m] = {})
    => \A n \in Nodes :
          pc[n] = "barrier"
          => \A m \in Nodes : pc[m] \notin {"IndexError", "FileNotFoundError"}

\* C28: with n_nodes >= 2 and save_output, the experiment directory exists
\* whenever a node is at the write of a per-rank artifact.
C28_DirectoryBeforeWrite ==
    (n_nodes >= 2 /\ save_output)
    => \A n \in Nodes : pc[n] = "save" => experiment_dir

\* C29: for a non-empty document list, the ranges handed to the workers for
\* one cleaner partition the slots 0..len-1; no slot is written twice for one
\* cleaner; a chunk of cleaner j+1 exists only when every document has had
\* the cleaners 1..j, so each document receives the cleaners in pipeline
\* order; the returned list keeps the input order.
C29_ParallelPartition ==
    (vu.state \in {"par", "done"} /\ vu.n_jobs > 1)
    => /\ vu.tasks # {}
          => \A s \in 0..(Len(vu.shared) - 1) :
                Cardinality({t \in vu.tasks :
                               t.chunk_start <= s /\ s < t.chunk_end}) = 1
       /\ \A d \in DOMAIN vu.shared :
             /\ vu.shared[d].id = vu.documents[d].id
             /\ \/ vu.shared[d].applied = [c \in 1..vu.j |-> c]
                \/ /\ vu.shared[d].applied = [c \in 1..(vu.j + 1) |-> c]
                   /\ \E t \in vu.tasks :
                         /\ t.st # "pending"
                         /\ t.chunk_start <= d - 1
                         /\ d - 1 < t.pos
       /\ vu.state = "done"
          => /\ Len(vu.result) = Len(vu.documents)
             /\ \A d \in DOMAIN vu.result :
                   vu.result[d] = clean_all(vu.documents[d], 1, vu.steps)

\* more chunks than workers, several cleaners, all done
C29_Witness ==
    /\ vu.state = "done"
    /\ vu.n_jobs > 1
    /\ vu.steps > 1
    /\ Len(vu.documents) > vu.par_jobs
    /\ Len(vu.documents) % vu.par_jobs # 0

\* C30: _clean_helper ends by returning, on the sequential and on the
\* parallel path alike, the documents with every cleaner applied in order,
\* for every document list, the empty one included.
C30_SameAsSequential ==
    vu.state \notin {"new", "seq", "par"}
    => /\ vu.state = "done"
       /\ Len(vu.result) = Len(vu.documents)
       /\ \A d \in DOMAIN vu.result :
             vu.result[d] = clean_all(vu.documents[d], 1, vu.steps)

\* C31: a Vulture object always stores 1 <= n_jobs <= cpu_count, n_nodes >= 1
\* and a parallel_backend among loky, multiprocessing, threading; an
\* assignment to n_jobs is accepted exactly for the integers in
\* [-cpu_count, -1] and [1, cpu_count], a negative n being stored as
\* cpu_count - |n| + 1; a rejected assignment to one of the three
\* attributes raises and leaves the stored value as it was.
C31_ValidatedAttributes ==
    /\ [](vo.state \in {"object", "clean"}
          => /\ 1 <= vo.n_jobs /\ vo.n_jobs <= vo.cpu_count
             /\ vo.n_nodes >= 1
             /\ vo.parallel_backend \in {"loky", "multiprocessing", "threading"})
    /\ [][(vo.state = "object" /\ vo'.state = "object")
          => /\ vo'.attr = "n_jobs"
                => LET n == vo'.arg.v
                       accepted ==
                           /\ vo'.arg.type \in {"int", "bool"}
                           /\ \/ (0 - vo.cpu_count <= n /\ n <= 0 - 1)
                              \/ (1 <= n /\ n <= vo.cpu_count)
                   IN  /\ accepted <=> vo'.exc = "none"
                       /\ (accepted /\ n < 0)
                          => vo'.n_jobs = vo.cpu_count - abs(n) + 1
                       /\ (accepted /\ n > 0) => vo'.n_jobs = n
             /\ vo'.exc # "none"
                => /\ vo'.n_jobs = vo.n_jobs
                   /\ vo'.n_nodes = vo.n_nodes
                   /\ vo'.parallel_backend = vo.parallel_backend]_vars

\* the most negative accepted n_jobs was assigned to an object and stored as 1
C31_Witness ==
    /\ vo.state = "object"
    /\ vo.cpu_count > 1
    /\ vo.attr = "n_jobs"
    /\ vo.arg = PyInt(0 - vo.cpu_count)
    /\ vo.exc = "none"
    /\ vo.n_jobs = 1

RECURSIVE concat(_)
concat(chunks) ==
    IF chunks = <<>> THEN <<>> ELSE Head(chunks) \o concat(Tail(chunks))

\* C32: in a clean over several nodes (save_path None or a new file), the
\* raw chunks are n_nodes contiguous slices of the input whose sizes differ
\* by at most 1, and a node whose call is past the first barrier ends by
\* holding, as the combined result, every document of the input with every
\* cleaner applied, in the input order.
C32_MultiNodeClean ==
    (vo.state = "clean" /\ use_mpi /\ vo.save_path \in {"None", "new"})
    => /\ LET chunks == chunk_tuple_list(vo.documents, vo.n_nodes)
          IN  /\ Len(chunks) = vo.n_nodes
              /\ concat(chunks) = vo.documents
              /\ \A a, b \in DOMAIN chunks :
                    Len(chunks[a]) - Len(chunks[b]) <= 1
       /\ \A n \in ObjNodes :
             vo.pc[n] \notin {"start", "Barrier"}
             => /\ vo.pc[n] = "returned"
                /\ vo.clean_documents[n] =
                      [d \in DOMAIN vo.documents |->
                          clean_all(vo.documents[d], 1, vo.steps)]

\* C33: a single-node clean that returns has, when save_path is given,
\* written the cleaned documents (every cleaner applied to every document,
\* keyed by document id) to save_path and returned nothing; when save_path
\* is None it has returned the cleaned documents as a dict keyed by
\* document id and written no file.
C33_SaveOrReturn ==
    (vo.state = "clean" /\ ~use_mpi)
    => \A n \in ObjNodes :
          vo.pc[n] = "returned"
          => LET cleaned == dict([d \in DOMAIN vo.documents |->
                                     clean_all(vo.documents[d], 1, vo.steps)])
             IN  IF vo.save_path # "None"
                 THEN /\ vo.file = [kind |-> "written", content |-> cleaned]
                      /\ vo.returned[n].kind = "None"
                 ELSE /\ vo.returned[n] = [kind |-> "dict", value |-> cleaned]
                      /\ vo.file.kind = "absent"

====
